---- MODULE Spec2Model ----
(***************************************************************************)
(* Model of data_science/sub_agents/bigquery/tools.py: the SQL literal     *)
(* serializer, the schema introspector, the settings memo and the query    *)
(* validator.  Text is modelled as a sequence of one-character strings so  *)
(* that str.replace, the substring test and the word-boundary regex are    *)
(* computed character by character, as the code computes them.             *)
(***************************************************************************)
EXTENDS Integers, Sequences, FiniteSets, TLC

VARIABLES
    sql_in,            \* argument sql_string of run_bigquery_validation
    env,               \* behaviour of the backend / tool context in that call
    vpc,               \* "call" before the call, "returned" / "raised" after
    sql_string,        \* the local sql_string after cleanup_sql
    final_result,      \* the dict the call returns
    tool_state,        \* tool_context.state["query_result"]
    client_queries,    \* texts handed to get_bq_client().query in the call
    numpy_empty_raises,\* the installed numpy raises on bool() of an empty array
    ser_value,         \* argument of _serialize_value_for_sql
    ser_pc,            \* "call" before the call, "done" after
    ser_result,        \* what the call returned, or the exception it raised
    catalog,           \* the dataset as the warehouse client presents it
    schema_pc,         \* "call" before get_bigquery_schema, "done" after
    schema_result,     \* the DDL document returned, or the exception raised
    database_settings, \* the module global database_settings
    compute_count,     \* number of get_bigquery_schema runs started for settings
    last_computed,     \* the settings dict built by the latest such run that succeeded
    last_call,         \* the operation that ran last and what it returned
    tpc,               \* per concurrent caller: position in get_database_settings
    tddl,              \* per concurrent caller: the local ddl_schema
    tlocal,            \* per concurrent caller: value returned by update_database_settings
    tret               \* per concurrent caller: value get_database_settings returned

validate_vars == <<sql_in, env, vpc, sql_string, final_result, tool_state,
                   client_queries>>
serialize_vars == <<ser_value, ser_pc, ser_result>>

schema_vars == <<schema_pc, schema_result>>

settings_vars == <<database_settings, compute_count, last_computed>>
thread_vars == <<tpc, tddl, tlocal, tret>>

vars == <<validate_vars, numpy_empty_raises, serialize_vars, catalog,
          schema_vars, settings_vars, last_call, thread_vars>>

\* Python None is the empty option <<>>; a present value v is <<v>>
None == <<>>
Some(v) == <<v>>

\* a record of a call: the operation, whether it returned (rather than
\* raised), and the value it returned
Call(op, ok, ret) == [op |-> op, ok |-> ok, ret |-> ret]

(***************************************************************************)
(* Bounds                                                                  *)
(***************************************************************************)
MaxFrags == 3
MaxBackendRows == 82
MaxLen == 2
MaxInnerLen == 2
MaxTables == 2
MaxSampleRows == 2
MaxComputes == 3
NumCallers == 2

(***************************************************************************)
(* Program constants                                                       *)
(***************************************************************************)
MAX_NUM_ROWS == 80

(***************************************************************************)
(* Characters and Python string primitives                                 *)
(***************************************************************************)
BS == "\\"
DQ == "\""
SQ == "'"
NL == "\n"

LowerLetters == {"a","b","c","d","e","f","g","h","i","j","k","l","m",
                 "n","o","p","q","r","s","t","u","v","w","x","y","z"}
UpperLetters == {"A","B","C","D","E","F","G","H","I","J","K","L","M",
                 "N","O","P","Q","R","S","T","U","V","W","X","Y","Z"}
Digits == {"0","1","2","3","4","5","6","7","8","9"}
WordChars == LowerLetters \cup UpperLetters \cup Digits \cup {"_"}

LowerPairs == {<<"A","a">>,<<"B","b">>,<<"C","c">>,<<"D","d">>,<<"E","e">>,
               <<"F","f">>,<<"G","g">>,<<"H","h">>,<<"I","i">>,<<"J","j">>,
               <<"K","k">>,<<"L","l">>,<<"M","m">>,<<"N","n">>,<<"O","o">>,
               <<"P","p">>,<<"Q","q">>,<<"R","r">>,<<"S","s">>,<<"T","t">>,
               <<"U","u">>,<<"V","v">>,<<"W","w">>,<<"X","x">>,<<"Y","y">>,
               <<"Z","z">>}

LowerChar(c) ==
    IF c \in UpperLetters
    THEN (CHOOSE p \in LowerPairs : p[1] = c)[2]
    ELSE c

\* str.lower()
Lower(s) == [i \in 1..Len(s) |-> LowerChar(s[i])]

\* s[i:i+len(sub)] == sub
MatchAt(s, sub, i) ==
    /\ i >= 1
    /\ i + Len(sub) - 1 <= Len(s)
    /\ SubSeq(s, i, i + Len(sub) - 1) = sub

\* sub in s
Contains(s, sub) == \E i \in 1..Len(s) : MatchAt(s, sub, i)

\* str.replace(old, new): leftmost, non-overlapping, single left-to-right pass
RECURSIVE ReplaceFrom(_, _, _, _)
ReplaceFrom(s, old, new, i) ==
    IF i > Len(s) THEN <<>>
    ELSE IF MatchAt(s, old, i)
         THEN new \o ReplaceFrom(s, old, new, i + Len(old))
         ELSE <<s[i]>> \o ReplaceFrom(s, old, new, i + 1)

Replace(s, old, new) == ReplaceFrom(s, old, new, 1)

\* number of non-overlapping occurrences, as str.count
RECURSIVE CountFrom(_, _, _)
CountFrom(s, sub, i) ==
    IF i > Len(s) THEN 0
    ELSE IF MatchAt(s, sub, i)
         THEN 1 + CountFrom(s, sub, i + Len(sub))
         ELSE CountFrom(s, sub, i + 1)

Count(s, sub) == CountFrom(s, sub, 1)

\* str(MAX_NUM_ROWS)
DigitOf(d) == CHOOSE c \in Digits :
    c = <<"0","1","2","3","4","5","6","7","8","9">>[d + 1]

RECURSIVE StrNat(_)
StrNat(n) ==
    IF n < 10 THEN <<DigitOf(n)>>
    ELSE StrNat(n \div 10) \o <<DigitOf(n % 10)>>

(***************************************************************************)
(* cleanup_sql                                                             *)
(***************************************************************************)
LIMIT_WORD == <<"l","i","m","i","t">>

LimitSuffix == <<" ">> \o LIMIT_WORD \o <<" ">> \o StrNat(MAX_NUM_ROWS)

\* steps 1-4 of cleanup_sql: the four replace calls, in order
Unescape(s) ==
    LET s1 == Replace(s, <<BS, DQ>>, <<DQ>>)
        s2 == Replace(s1, <<BS, NL>>, <<NL>>)
        s3 == Replace(s2, <<BS, SQ>>, <<SQ>>)
        s4 == Replace(s3, <<BS, "n">>, <<NL>>)
    IN s4

\* step 5 without .lower()
cleanup_sql_CaseSensitive(s) ==
    LET c == Unescape(s)
    IN IF ~Contains(c, LIMIT_WORD) THEN c \o LimitSuffix ELSE c

cleanup_sql(s) ==
    LET c == Unescape(s)
    IN IF ~Contains(Lower(c), LIMIT_WORD) THEN c \o LimitSuffix ELSE c

(***************************************************************************)
(* The DML/DDL gate: re.search(r"(?i)\b(update|...|merge)\b", sql_string)  *)
(***************************************************************************)
Keywords == {
    <<"u","p","d","a","t","e">>,
    <<"d","e","l","e","t","e">>,
    <<"d","r","o","p">>,
    <<"i","n","s","e","r","t">>,
    <<"c","r","e","a","t","e">>,
    <<"a","l","t","e","r">>,
    <<"t","r","u","n","c","a","t","e">>,
    <<"m","e","r","g","e">> }

\* \b at the gap before position i (between s[i-1] and s[i])
WordBoundary(s, i) ==
    LET before == i > 1 /\ s[i - 1] \in WordChars
        after  == i <= Len(s) /\ s[i] \in WordChars
    IN before # after

\* the gate without the (?i) flag
DisallowedSearch_CaseSensitive(s) ==
    \E kw \in Keywords : \E i \in 1..Len(s) :
        /\ MatchAt(s, kw, i)
        /\ WordBoundary(s, i)
        /\ WordBoundary(s, i + Len(kw))

DisallowedSearch(s) ==
    LET low == Lower(s)
    IN \E kw \in Keywords : \E i \in 1..Len(s) :
           /\ MatchAt(low, kw, i)
           /\ WordBoundary(s, i)
           /\ WordBoundary(s, i + Len(kw))

(***************************************************************************)
(* Inputs of run_bigquery_validation                                       *)
(***************************************************************************)
Fragments == {
    <<"s","e","l","e","c","t">>,
    <<"d","r","o","p">>,
    <<"M","e","r","g","e">>,
    <<"l","i","m","i","t">>,
    <<"L","i","M","i","T">>,
    <<" ">>, <<"x">>, <<"n">>,
    <<BS>>, <<DQ>>, <<SQ>>, <<NL>> }

RECURSIVE FragTexts(_)
FragTexts(k) ==
    IF k = 0 THEN { <<>> }
    ELSE LET P == FragTexts(k - 1)
         IN P \cup { p \o f : p \in P, f \in Fragments }

Texts == FragTexts(MaxFrags)

ExecTexts == { <<"s","e","l","e","c","t">>,
               <<"s","e","l","e","c","t">> \o <<" ">> \o LIMIT_WORD,
               <<"d","r","o","p">> }

\* where the call faults: nowhere, or in one of the statements of the try block
FaultPoints == {"none", "get_bq_client", "query", "result", "iterate",
                "state_write"}

BackendFaults == {"get_bq_client", "query", "result", "iterate"}

RowCounts == {0, 1, MAX_NUM_ROWS - 1, MAX_NUM_ROWS, MAX_NUM_ROWS + 1,
              MaxBackendRows}

\* a value of a result row: a datetime.date or anything else
DateValue == [type |-> "date", y |-> 2024, m |-> 1, d |-> 5]
IntValue == [type |-> "int", v |-> 7]
CellValues == { DateValue, IntValue }

Envs == [fault : FaultPoints, has_schema : BOOLEAN, nrows : RowCounts,
         cell : CellValues]

GateEnvs == { e \in Envs : /\ e.fault = "none"
                           /\ e.has_schema
                           /\ e.nrows = 1
                           /\ e.cell = IntValue }

\* what tool_context.state["query_result"] holds before the call
PriorStates ==
    { None, Some(<< [c |-> IntValue, n |-> 1] >>) }

\* (sql_string, behaviour of the backend, prior session state): every text
\* against a backend that answers, and a few texts against every behaviour
ValidationInputs ==
    (Texts \X GateEnvs \X { None }) \cup (ExecTexts \X Envs \X PriorStates)

\* the rows the backend would yield for the query: row i holds column "c"
BackendRows(e) == [i \in 1..e.nrows |-> [c |-> e.cell, n |-> i]]

(***************************************************************************)
(* run_bigquery_validation                                                 *)
(***************************************************************************)
Pad2(n) == IF n < 10 THEN <<"0">> \o StrNat(n) ELSE StrNat(n)

\* value.strftime("%Y-%m-%d")
Strftime(v) == StrNat(v.y) \o <<"-">> \o Pad2(v.m) \o <<"-">> \o Pad2(v.d)

\* isinstance(value, datetime.date)
IsDate(v) == v.type = "date"

ShapeRow(row) == [c |-> IF IsDate(row.c)
                        THEN [type |-> "str", text |-> Strftime(row.c)]
                        ELSE row.c,
                  n |-> row.n]

Min(a, b) == IF a < b THEN a ELSE b

\* the list of shaped rows without the [:MAX_NUM_ROWS] slice
ShapeRows_NoSlice(results) ==
    [i \in 1..Len(results) |-> ShapeRow(results[i])]

\* [ {...} for row in results ][:MAX_NUM_ROWS]
ShapeRows(results) ==
    LET all == [i \in 1..Len(results) |-> ShapeRow(results[i])]
    IN SubSeq(all, 1, Min(Len(all), MAX_NUM_ROWS))

DisallowedMessage == <<"Invalid SQL: Contains disallowed DML/DDL operations.">>
NoResultsMessage == <<"Valid SQL. Query executed successfully (no results).">>
FaultMessage(e) == <<"Invalid SQL: ", e.fault>>

\* an except clause that only covers the query job
Caught_QueryOnly(fault) == fault \in {"query", "result"}

\* the except clause: which faults raised in the try block are caught
Caught(fault) == TRUE

\* the statement final_result["query_result"] = rows
StoreRows(rows) == Some(rows)

\* the result of the call as a record:
\*   outcome, final_result, tool_state', queries sent to the client
Validate(sql, e, state) ==
    LET cleaned == cleanup_sql(sql)
        empty == [query_result |-> None, error_message |-> None]
        rows == ShapeRows(BackendRows(e))
        fail(res, qs) ==
            IF Caught(e.fault)
            THEN [outcome |-> "returned",
                  final_result |-> [res EXCEPT !.error_message = Some(FaultMessage(e))],
                  tool_state |-> state, queries |-> qs, sql |-> cleaned]
            ELSE [outcome |-> "raised", final_result |-> empty,
                  tool_state |-> state, queries |-> qs, sql |-> cleaned]
    IN IF DisallowedSearch(cleaned)
       THEN [outcome |-> "returned",
             final_result |-> [empty EXCEPT !.error_message = Some(DisallowedMessage)],
             tool_state |-> state, queries |-> <<>>, sql |-> cleaned]
       ELSE IF e.fault = "get_bq_client" THEN fail(empty, <<>>)
       ELSE IF e.fault \in {"query", "result"} THEN fail(empty, <<cleaned>>)
       ELSE IF ~e.has_schema
       THEN [outcome |-> "returned",
             final_result |-> [empty EXCEPT !.error_message = Some(NoResultsMessage)],
             tool_state |-> state, queries |-> <<cleaned>>, sql |-> cleaned]
       ELSE IF e.fault = "iterate" THEN fail(empty, <<cleaned>>)
       ELSE IF e.fault = "state_write"
       THEN fail([empty EXCEPT !.query_result = StoreRows(rows)], <<cleaned>>)
       ELSE [outcome |-> "returned",
             final_result |-> [empty EXCEPT !.query_result = StoreRows(rows)],
             tool_state |-> Some(rows), queries |-> <<cleaned>>, sql |-> cleaned]

run_bigquery_validation ==
    /\ vpc = "call"
    /\ \E r \in { Validate(sql_in, env, tool_state) } :
          /\ vpc' = r.outcome
          /\ sql_string' = r.sql
          /\ final_result' = r.final_result
          /\ tool_state' = r.tool_state
          /\ client_queries' = r.queries
    /\ last_call' = Call("run_bigquery_validation", TRUE, None)
    /\ UNCHANGED <<sql_in, env, numpy_empty_raises, serialize_vars, catalog,
                   schema_vars, settings_vars, thread_vars>>


(***************************************************************************)
(* _serialize_value_for_sql                                                *)
(***************************************************************************)
\* Values of a dataframe cell.  Text is a sequence of characters; an array
\* holds its elements in e, a struct its (field, value) pairs in e.
NullV == [k |-> "null"]
TextV(t) == [k |-> "text", s |-> t]
BytesV(t) == [k |-> "bytes", s |-> t]
TemporalV(t) == [k |-> "temporal", s |-> t]
ScalarV(t) == [k |-> "scalar", s |-> t]
ArrayV(es) == [k |-> "array", e |-> es]
StructV(es) == [k |-> "struct", e |-> es]

Ok(t) == [ok |-> TRUE, text |-> t]
Raise(x) == [ok |-> FALSE, text |-> <<x>>]

\* a byte that is not valid UTF-8, and what decode(..., 'replace') makes of it
BadByte == "\\xff"
ReplacementChar == "\\ufffd"

\* bytes.decode('utf-8', 'replace')
Decode(b) == [i \in 1..Len(b) |-> IF b[i] = BadByte THEN ReplacementChar ELSE b[i]]

\* .replace('\\', '\\\\').replace("'", "''")
Escape(t) == Replace(Replace(t, <<BS>>, <<BS, BS>>), <<SQ>>, <<SQ, SQ>>)

\* bool(numpy.ndarray): the truth value of an array of booleans
ArrayTruth(flags, empty_raises) ==
    IF Len(flags) = 0
    THEN (IF empty_raises THEN "raise" ELSE "false")
    ELSE IF Len(flags) = 1
         THEN (IF flags[1] THEN "true" ELSE "false")
         ELSE "raise"

\* the condition `if pd.isna(value)`: pd.isna is elementwise on a list or
\* ndarray and the if takes the truth value of the resulting array
IsNaTest(v, empty_raises) ==
    IF v.k = "null" THEN "true"
    ELSE IF v.k = "array"
         THEN ArrayTruth([i \in 1..Len(v.e) |-> v.e[i].k = "null"], empty_raises)
         ELSE "false"

RECURSIVE Join(_, _)
Join(parts, i) ==
    IF i > Len(parts) THEN <<>>
    ELSE IF i = Len(parts) THEN parts[i]
    ELSE parts[i] \o <<",", " ">> \o Join(parts, i + 1)

RECURSIVE _serialize_value_for_sql(_, _)
_serialize_value_for_sql(v, empty_raises) ==
    LET na == IsNaTest(v, empty_raises)
        \* ', '.join(_serialize_value_for_sql(x) for x in elems)
        joined(elems) ==
            LET rs == [i \in 1..Len(elems) |->
                          _serialize_value_for_sql(elems[i], empty_raises)]
            IN IF \E i \in 1..Len(rs) : ~rs[i].ok
               THEN Raise("ValueError")
               ELSE Ok(Join([i \in 1..Len(rs) |-> rs[i].text], 1))
    IN IF na = "raise" THEN Raise("ValueError")
       ELSE IF na = "true" THEN Ok(<<"N","U","L","L">>)
       ELSE IF v.k = "text" THEN Ok(<<SQ>> \o Escape(v.s) \o <<SQ>>)
       ELSE IF v.k = "bytes"
            THEN Ok(<<"b", SQ>> \o Escape(Decode(v.s)) \o <<SQ>>)
       ELSE IF v.k = "temporal" THEN Ok(<<SQ>> \o v.s \o <<SQ>>)
       ELSE IF v.k = "array"
            THEN LET j == joined(v.e)
                 IN IF j.ok THEN Ok(<<"[">> \o j.text \o <<"]">>) ELSE j
       ELSE IF v.k = "struct"
            THEN LET j == joined([i \in 1..Len(v.e) |-> v.e[i][2]])
                 IN IF j.ok THEN Ok(<<"(">> \o j.text \o <<")">>) ELSE j
       ELSE Ok(v.s)

\* the values the serializer is applied to
Leaves == { NullV,
            TextV(<<"a", SQ, BS>>),
            BytesV(<<"b", BadByte>>),
            TemporalV(<<"2","0","2","4","-","0","1","-","0","5">>),
            ScalarV(<<"7">>) }

InnerLeaves == { NullV, ScalarV(<<"7">>) }

RECURSIVE SeqsUpTo(_, _)
SeqsUpTo(S, n) ==
    IF n = 0 THEN { <<>> }
    ELSE LET P == SeqsUpTo(S, n - 1)
         IN P \cup { Append(p, x) : p \in P, x \in S }

FieldNames == <<"f1", "f2", "f3", "f4">>

AsFields(es) == [i \in 1..Len(es) |-> <<FieldNames[i], es[i]>>]

ArraysOver(S, n) == { ArrayV(es) : es \in SeqsUpTo(S, n) }
StructsOver(S, n) == { StructV(AsFields(es)) : es \in SeqsUpTo(S, n) \ { <<>> } }

InnerValues ==
    ArraysOver(InnerLeaves, MaxInnerLen) \cup StructsOver(InnerLeaves, MaxInnerLen)

Values ==
    Leaves \cup ArraysOver(Leaves \cup InnerValues, MaxLen)
           \cup StructsOver(Leaves \cup InnerValues, MaxLen)

Serialize ==
    /\ ser_pc = "call"
    /\ ser_pc' = "done"
    /\ ser_result' = _serialize_value_for_sql(ser_value, numpy_empty_raises)
    /\ last_call' = Call("_serialize_value_for_sql", TRUE, None)
    /\ UNCHANGED <<validate_vars, numpy_empty_raises, ser_value, catalog,
                   schema_vars, settings_vars, thread_vars>>

(***************************************************************************)
(* get_bigquery_schema                                                     *)
(***************************************************************************)
\* A table of the dataset as the client presents it: whether get_table
\* raises, the descriptor it returns, and what the sample query does.
\* sample.fault is the step of the sample fetch that raises ("none",
\* "query" or "to_dataframe"); sample.rows holds row.values of each row.
Field(name, type, mode, description) ==
    [name |-> name, field_type |-> type, mode |-> mode,
     description |-> description]

TableSchema == << Field("id", "INT64", "NULLABLE", None),
                  Field("scores", "INT64", "REPEATED",
                        Some(<<"i","t",SQ,"s">>)) >>

NoSample == [fault |-> "none", rows |-> <<>>]

Table(fails, type, format, sample) ==
    [get_table_fails |-> fails, table_type |-> type, source_format |-> format,
     sample |-> sample]

GoodRow == << ScalarV(<<"7">>), ArrayV(<< ScalarV(<<"7">>) >>) >>
BadRow == << ScalarV(<<"7">>), ArrayV(<< ScalarV(<<"7">>), ScalarV(<<"8">>) >>) >>

SampleOutcomes ==
    { [fault |-> "query", rows |-> <<>>],
      [fault |-> "to_dataframe", rows |-> <<>>] }
    \cup { [fault |-> "none", rows |-> r] :
              r \in SeqsUpTo({GoodRow, BadRow}, MaxSampleRows) }

TableOptions ==
    { Table(TRUE, "TABLE", "", NoSample),
      Table(FALSE, "VIEW", "", NoSample),
      Table(FALSE, "EXTERNAL", "ICEBERG", NoSample),
      Table(FALSE, "EXTERNAL", "CSV", NoSample),
      Table(FALSE, "MATERIALIZED_VIEW", "", NoSample) }
    \cup { Table(FALSE, "TABLE", "", sm) : sm \in SampleOutcomes }

\* listing: does the INFORMATION_SCHEMA.TABLES query (or reading it) raise
Catalogs ==
    { [listing_fails |-> TRUE, tables |-> <<>>] }
    \cup { [listing_fails |-> FALSE, tables |-> ts] :
              ts \in SeqsUpTo(TableOptions, MaxTables) }

Stmt(kind, table, body) == [stmt |-> kind, table |-> table, body |-> body]

\* the column definitions of a CREATE EXTERNAL TABLE
ExternalColumnDefs(schema) ==
    [i \in 1..Len(schema) |->
        [name |-> schema[i].name,
         col_type |-> IF schema[i].mode = "REPEATED"
                      THEN <<"ARRAY<", schema[i].field_type, ">">>
                      ELSE <<schema[i].field_type>>,
         options |-> None]]

\* the column definitions of a CREATE OR REPLACE TABLE
TableColumnDefs(schema) ==
    [i \in 1..Len(schema) |->
        [name |-> schema[i].name,
         col_type |-> IF schema[i].mode = "REPEATED"
                      THEN <<"ARRAY<", schema[i].field_type, ">">>
                      ELSE <<schema[i].field_type>>,
         options |-> IF schema[i].description # None
                     THEN Some(Replace(schema[i].description[1],
                                       <<SQ>>, <<SQ, SQ>>))
                     ELSE None]]

\* ", ".join(_serialize_value_for_sql(v) for v in row.values)
SerializeRow(row, empty_raises) ==
    LET rs == [i \in 1..Len(row) |->
                  _serialize_value_for_sql(row[i], empty_raises)]
    IN IF \E i \in 1..Len(rs) : ~rs[i].ok
       THEN Raise("ValueError")
       ELSE Ok(Join([i \in 1..Len(rs) |-> rs[i].text], 1))

\* the loop over rows.iterrows(): the statements appended to ddl_statement
\* and whether the loop ran to its end or raised
RECURSIVE InsertRows(_, _, _, _, _)
InsertRows(t, rows, i, acc, empty_raises) ==
    IF i > Len(rows) THEN [ok |-> TRUE, stmts |-> acc]
    ELSE LET r == SerializeRow(rows[i], empty_raises)
         IN IF r.ok
            THEN InsertRows(t, rows, i + 1,
                            Append(acc, Stmt("INSERT", t, r.text)), empty_raises)
            ELSE [ok |-> FALSE, stmts |-> acc]

\* what the except clause of the sample fetch appends after what the try
\* block had already appended
SampleFailure(t, appended) == Append(appended, Stmt("NOTE", t, <<>>))

\* the try/except of the TABLE branch: what follows the CREATE statement
SampleStatements(t, sample, empty_raises) ==
    IF sample.fault # "none" THEN SampleFailure(t, <<>>)
    ELSE IF sample.rows = <<>> THEN <<>>
    ELSE LET header == << Stmt("EXAMPLE HEADER", t, <<>>) >>
             ins == InsertRows(t, sample.rows, 1, header, empty_raises)
         IN IF ins.ok THEN ins.stmts ELSE SampleFailure(t, ins.stmts)

\* the body of the loop for the table listed at position t
TableBlock(t, tbl, empty_raises) ==
    IF tbl.table_type = "VIEW"
    THEN << Stmt("CREATE OR REPLACE VIEW", t, <<"view_query">>) >>
    ELSE IF tbl.table_type = "EXTERNAL"
    THEN IF tbl.source_format = "ICEBERG"
         THEN << Stmt("CREATE EXTERNAL TABLE", t,
                      ExternalColumnDefs(TableSchema)) >>
         ELSE <<>>
    ELSE IF tbl.table_type = "TABLE"
    THEN << Stmt("CREATE OR REPLACE TABLE", t, TableColumnDefs(TableSchema)) >>
         \o SampleStatements(t, tbl.sample, empty_raises)
    ELSE <<>>

\* client.get_table(table_ref) in the loop: does its exception leave the loop
GetTableRaises(tbl) == tbl.get_table_fails

RECURSIVE ProcessTables(_, _, _, _)
ProcessTables(tables, t, ddl_statements, empty_raises) ==
    IF t > Len(tables) THEN [ok |-> TRUE, doc |-> ddl_statements]
    ELSE IF GetTableRaises(tables[t])
    THEN [ok |-> FALSE, doc |-> << Stmt("raised", t, <<"get_table">>) >>]
    ELSE ProcessTables(tables, t + 1,
                       ddl_statements \o TableBlock(t, tables[t], empty_raises),
                       empty_raises)

get_bigquery_schema(cat, empty_raises) ==
    IF cat.listing_fails
    THEN [ok |-> FALSE, doc |-> << Stmt("raised", 0, <<"listing">>) >>]
    ELSE ProcessTables(cat.tables, 1, <<>>, empty_raises)

GetBigquerySchema ==
    /\ schema_pc = "call"
    /\ schema_pc' = "done"
    /\ schema_result' = get_bigquery_schema(catalog, numpy_empty_raises)
    /\ last_call' = Call("get_bigquery_schema", TRUE, None)
    /\ UNCHANGED <<validate_vars, numpy_empty_raises, serialize_vars, catalog,
                   settings_vars, thread_vars>>

(***************************************************************************)
(* get_database_settings / update_database_settings                        *)
(***************************************************************************)
\* the dict literal of update_database_settings; id tells apart the dict
\* objects built by different runs
MakeSettings(ddl_schema, id) ==
    [bq_data_project_id |-> "BQ_DATA_PROJECT_ID",
     bq_dataset_id |-> "BQ_DATASET_ID",
     bq_ddl_schema |-> ddl_schema,
     chase_sql_constants |-> "chase_sql_constants_dict",
     id |-> id]

\* a get that never consults the stored snapshot
MustCompute_Always(stored) == TRUE

\* `if database_settings is None`: must the settings be computed
MustCompute(stored) == stored = None

\* update_database_settings without its return statement
UpdateReturnValue_Missing(settings) == None

\* the value update_database_settings hands back to its caller
UpdateReturnValue(settings) == Some(settings)

\* update_database_settings as a whole, given what its call of
\* get_bigquery_schema does (schema): the exception of get_bigquery_schema
\* propagates; otherwise the global is replaced and the new dict returned
update_database_settings(schema, id, stored) ==
    IF ~schema.ok
    THEN [ok |-> FALSE, global |-> stored, ret |-> None]
    ELSE [ok |-> TRUE, global |-> Some(MakeSettings(schema.doc, id)),
          ret |-> UpdateReturnValue(MakeSettings(schema.doc, id))]

\* get_database_settings as a whole; schema is what get_bigquery_schema does
\* if update_database_settings is called
get_database_settings(schema, id, stored) ==
    IF MustCompute(stored)
    THEN IF ~update_database_settings(schema, id, stored).ok
         THEN update_database_settings(schema, id, stored)
         ELSE [ok |-> TRUE,
               global |-> update_database_settings(schema, id, stored).ret,
               ret |-> update_database_settings(schema, id, stored).ret]
    ELSE [ok |-> TRUE, global |-> stored, ret |-> stored]

GetDatabaseSettings ==
    /\ MustCompute(database_settings) => compute_count < MaxComputes
    /\ \E schema \in { get_bigquery_schema(catalog, numpy_empty_raises) } :
       \E g \in { get_database_settings(schema, compute_count + 1,
                                        database_settings) } :
          /\ database_settings' = g.global
          /\ compute_count' = IF MustCompute(database_settings)
                              THEN compute_count + 1 ELSE compute_count
          /\ last_computed' = IF MustCompute(database_settings) /\ g.ok
                              THEN g.global ELSE last_computed
          /\ last_call' = Call("get_database_settings", g.ok, g.ret)
    /\ UNCHANGED <<validate_vars, numpy_empty_raises, serialize_vars, catalog,
                   schema_vars, thread_vars>>

UpdateDatabaseSettings ==
    /\ compute_count < MaxComputes
    /\ \E schema \in { get_bigquery_schema(catalog, numpy_empty_raises) } :
       \E u \in { update_database_settings(schema, compute_count + 1,
                                           database_settings) } :
          /\ database_settings' = u.global
          /\ compute_count' = compute_count + 1
          /\ last_computed' = IF u.ok THEN u.global ELSE last_computed
          /\ last_call' = Call("update_database_settings", u.ok, u.ret)
    /\ UNCHANGED <<validate_vars, numpy_empty_raises, serialize_vars, catalog,
                   schema_vars, thread_vars>>

\* the datasets the settings are computed from
ViewCatalog ==
    [listing_fails |-> FALSE,
     tables |-> << Table(FALSE, "VIEW", "", NoSample) >>]
TableCatalog ==
    [listing_fails |-> FALSE,
     tables |-> << Table(FALSE, "TABLE", "",
                         [fault |-> "none", rows |-> << GoodRow >>]) >>]
BrokenCatalog == [listing_fails |-> TRUE, tables |-> <<>>]

SettingsCatalogs == { ViewCatalog, TableCatalog, BrokenCatalog }

\* the environment: the dataset changes behind the memo
CatalogChange ==
    /\ catalog' \in SettingsCatalogs \ { catalog }
    /\ last_call' = Call("catalog_change", TRUE, None)
    /\ UNCHANGED <<validate_vars, numpy_empty_raises, serialize_vars,
                   schema_vars, settings_vars, thread_vars>>

(***************************************************************************)
(* get_database_settings called by concurrent callers, one step per        *)
(* access to the global                                                    *)
(***************************************************************************)
Callers == 1..NumCallers

\* line 80: the test of the global
ThreadCheck(t) ==
    /\ tpc[t] = "check"
    /\ tpc' = [tpc EXCEPT ![t] = IF MustCompute(database_settings)
                                 THEN "introspect" ELSE "return"]
    /\ last_call' = Call("check", TRUE, None)
    /\ UNCHANGED <<validate_vars, numpy_empty_raises, serialize_vars, catalog,
                   schema_vars, settings_vars, tddl, tlocal, tret>>

\* lines 88-93: update_database_settings runs the introspection
ThreadIntrospect(t) ==
    /\ tpc[t] = "introspect"
    /\ \E r \in { get_bigquery_schema(catalog, numpy_empty_raises) } :
          /\ tddl' = [tddl EXCEPT ![t] = r.doc]
          /\ tpc' = [tpc EXCEPT ![t] = IF r.ok THEN "update_store" ELSE "raised"]
    /\ compute_count' = compute_count + 1
    /\ last_call' = Call("get_bigquery_schema", TRUE, None)
    /\ UNCHANGED <<validate_vars, numpy_empty_raises, serialize_vars, catalog,
                   schema_vars, database_settings, last_computed, tlocal, tret>>

\* lines 94-101: update_database_settings replaces the global and returns
\* the new dict
ThreadUpdateStore(t) ==
    /\ tpc[t] = "update_store"
    /\ LET d == MakeSettings(tddl[t], t)
       IN /\ database_settings' = Some(d)
          /\ last_computed' = Some(d)
          /\ tlocal' = [tlocal EXCEPT ![t] = UpdateReturnValue(d)]
    /\ tpc' = [tpc EXCEPT ![t] = "store"]
    /\ last_call' = Call("update_database_settings", TRUE, None)
    /\ UNCHANGED <<validate_vars, numpy_empty_raises, serialize_vars, catalog,
                   schema_vars, compute_count, tddl, tret>>

\* line 81: the assignment of the returned dict to the global
ThreadStore(t) ==
    /\ tpc[t] = "store"
    /\ database_settings' = tlocal[t]
    /\ tpc' = [tpc EXCEPT ![t] = "return"]
    /\ last_call' = Call("store", TRUE, None)
    /\ UNCHANGED <<validate_vars, numpy_empty_raises, serialize_vars, catalog,
                   schema_vars, compute_count, last_computed, tddl, tlocal,
                   tret>>

\* line 82: return database_settings reads the global again
ThreadReturn(t) ==
    /\ tpc[t] = "return"
    /\ tret' = [tret EXCEPT ![t] = database_settings]
    /\ tpc' = [tpc EXCEPT ![t] = "done"]
    /\ last_call' = Call("return", TRUE, None)
    /\ UNCHANGED <<validate_vars, numpy_empty_raises, serialize_vars, catalog,
                   schema_vars, settings_vars, tddl, tlocal>>

(***************************************************************************)
(* Specifications: one per operation under study.  The variables of the    *)
(* other operations stay at their idle values.                             *)
(***************************************************************************)
IdleValidate ==
    /\ sql_in = <<>>
    /\ env = [fault |-> "none", has_schema |-> FALSE, nrows |-> 0,
              cell |-> IntValue]
    /\ vpc = "idle"
    /\ sql_string = <<>>
    /\ final_result = [query_result |-> None, error_message |-> None]
    /\ tool_state = None
    /\ client_queries = <<>>

IdleSerialize ==
    /\ ser_value = NullV
    /\ ser_pc = "idle"
    /\ ser_result = Ok(<<>>)

EmptyCatalog == [listing_fails |-> FALSE, tables |-> <<>>]

IdleSchema ==
    /\ schema_pc = "idle"
    /\ schema_result = [ok |-> TRUE, doc |-> <<>>]

IdleSettings ==
    /\ database_settings = None
    /\ compute_count = 0
    /\ last_computed = None
    /\ last_call = Call("none", TRUE, None)

IdleThreads ==
    /\ tpc = [t \in Callers |-> "idle"]
    /\ tddl = [t \in Callers |-> <<>>]
    /\ tlocal = [t \in Callers |-> None]
    /\ tret = [t \in Callers |-> None]

InitValidate ==
    /\ numpy_empty_raises = FALSE
    /\ IdleSerialize
    /\ catalog = EmptyCatalog
    /\ IdleSchema
    /\ IdleSettings
    /\ IdleThreads
    /\ \E inp \in ValidationInputs :
          sql_in = inp[1] /\ env = inp[2] /\ tool_state = inp[3]
    /\ vpc = "call"
    /\ sql_string = <<>>
    /\ final_result = [query_result |-> None, error_message |-> None]
    /\ client_queries = <<>>

NextValidate == run_bigquery_validation

SpecValidate == InitValidate /\ [][NextValidate]_vars

InitSerialize ==
    /\ numpy_empty_raises \in BOOLEAN
    /\ ser_value \in Values
    /\ ser_pc = "call"
    /\ ser_result = Ok(<<>>)
    /\ IdleValidate
    /\ catalog = EmptyCatalog
    /\ IdleSchema
    /\ IdleSettings
    /\ IdleThreads

NextSerialize == Serialize

SpecSerialize == InitSerialize /\ [][NextSerialize]_vars

InitSchema ==
    /\ numpy_empty_raises \in BOOLEAN
    /\ catalog \in Catalogs
    /\ schema_pc = "call"
    /\ schema_result = [ok |-> TRUE, doc |-> <<>>]
    /\ IdleValidate
    /\ IdleSerialize
    /\ IdleSettings
    /\ IdleThreads

NextSchema == GetBigquerySchema

SpecSchema == InitSchema /\ [][NextSchema]_vars

\* a sequential caller of the settings memo; the other tools of the module
\* run once each, at any point
InitSettings ==
    /\ numpy_empty_raises \in BOOLEAN
    /\ catalog \in SettingsCatalogs
    /\ IdleSettings
    /\ IdleThreads
    /\ IdleSerialize
    /\ schema_pc = "call"
    /\ schema_result = [ok |-> TRUE, doc |-> <<>>]
    /\ sql_in = <<"s","e","l","e","c","t">>
    /\ env = [fault |-> "none", has_schema |-> TRUE, nrows |-> 1,
              cell |-> IntValue]
    /\ vpc = "call"
    /\ sql_string = <<>>
    /\ final_result = [query_result |-> None, error_message |-> None]
    /\ tool_state = None
    /\ client_queries = <<>>

NextSettings ==
    \/ GetDatabaseSettings
    \/ UpdateDatabaseSettings
    \/ CatalogChange
    \/ GetBigquerySchema
    \/ run_bigquery_validation

SpecSettings == InitSettings /\ [][NextSettings]_vars

\* NumCallers callers inside get_database_settings at once
InitRace ==
    /\ numpy_empty_raises \in BOOLEAN
    /\ catalog \in SettingsCatalogs
    /\ IdleSettings
    /\ tpc = [t \in Callers |-> "check"]
    /\ tddl = [t \in Callers |-> <<>>]
    /\ tlocal = [t \in Callers |-> None]
    /\ tret = [t \in Callers |-> None]
    /\ IdleValidate
    /\ IdleSerialize
    /\ IdleSchema

NextRace ==
    \/ \E t \in Callers : ThreadCheck(t)
    \/ \E t \in Callers : ThreadIntrospect(t)
    \/ \E t \in Callers : ThreadUpdateStore(t)
    \/ \E t \in Callers : ThreadStore(t)
    \/ \E t \in Callers : ThreadReturn(t)
    \/ CatalogChange

SpecRace == InitRace /\ [][NextRace]_vars

(***************************************************************************)
(* Properties of run_bigquery_validation                                   *)
(***************************************************************************)
Returned == vpc = "returned"
Called == vpc # "call"

\* s[i..j] is a whole word: a maximal run of word characters
IsWordAt(s, i, j) ==
    /\ i <= j
    /\ \A k \in i..j : s[k] \in WordChars
    /\ (i = 1 \/ s[i - 1] \notin WordChars)
    /\ (j = Len(s) \/ s[j + 1] \notin WordChars)

HasForbiddenWord(s) ==
    \E i \in 1..Len(s) : \E j \in i..Len(s) :
        IsWordAt(s, i, j) /\ Lower(SubSeq(s, i, j)) \in Keywords

\* a fault of the environment only happens if the statement is reached
FaultFires(e) ==
    \/ e.fault \in {"get_bq_client", "query", "result"}
    \/ e.fault \in {"iterate", "state_write"} /\ e.has_schema

\* C1: when the cleaned text holds one of the eight DML/DDL words as a whole
\* word (any letter case) the call returns the disallowed-operation error with
\* a null query_result and sends nothing to the client; every text that is
\* sent to the client holds none of those words.
C1_GateBlocksBackend ==
    Called =>
        /\ HasForbiddenWord(Unescape(sql_in) \o
                (IF Count(Lower(Unescape(sql_in)), LIMIT_WORD) = 0
                 THEN LimitSuffix ELSE <<>>)) =>
              /\ Returned
              /\ final_result.error_message = Some(DisallowedMessage)
              /\ final_result.query_result = None
              /\ client_queries = <<>>
        /\ \A k \in 1..Len(client_queries) :
              ~HasForbiddenWord(client_queries[k])

C1_Witness ==
    /\ Returned
    /\ sql_in = <<BS>> \o <<"n">> \o <<"M","e","r","g","e">>
    /\ ~HasForbiddenWord(sql_in)
    /\ final_result.error_message = Some(DisallowedMessage)
    /\ client_queries = <<>>

\* C2: query_result and error_message of a returned result are never both
\* populated.
C2_NeverBothPopulated ==
    Returned =>
        ~(final_result.query_result # None /\ final_result.error_message # None)

\* C3: the returned row list, and the row list written to the session state,
\* has at most MAX_NUM_ROWS rows.
C3_RowCap ==
    /\ Returned /\ final_result.query_result # None =>
          Len(final_result.query_result[1]) <= MAX_NUM_ROWS
    /\ tool_state # None => Len(tool_state[1]) <= MAX_NUM_ROWS

C3_Witness ==
    /\ Returned
    /\ env.nrows > MAX_NUM_ROWS
    /\ Contains(sql_in, LIMIT_WORD)
    /\ final_result.query_result # None
    /\ Len(final_result.query_result[1]) = MAX_NUM_ROWS
    /\ tool_state = final_result.query_result

\* C6: cleanup_sql appends exactly one limit clause when the unescaped text
\* has no "limit" in any letter case, appends nothing when it has one, and
\* appends nothing when applied to its own output.
C6_LimitOnce ==
    Called =>
        LET c == Unescape(sql_in)
            n == Count(Lower(c), LIMIT_WORD)
            again == cleanup_sql(sql_string)
        IN /\ n = 0 => /\ sql_string = c \o LimitSuffix
                       /\ Count(Lower(sql_string), LIMIT_WORD) = 1
           /\ n > 0 => sql_string = c
           /\ Count(Lower(again), LIMIT_WORD) = Count(Lower(sql_string), LIMIT_WORD)
           /\ Len(again) <= Len(sql_string)

C6_Witness ==
    /\ Called
    /\ sql_in = <<"L","i","M","i","T">> \o <<BS>> \o <<DQ>>
    /\ sql_string = <<"L","i","M","i","T">> \o <<DQ>>

\* C7: when the gate passes and the backend faults (getting the client,
\* submitting the query, reading or iterating its results) the call returns
\* (does not raise) a result with the fault's message and a null
\* query_result, and leaves the session's query_result as it was.
C7_FaultBecomesResult ==
    [][ (/\ vpc = "call"
         /\ ~HasForbiddenWord(cleanup_sql(sql_in))
         /\ env.fault \in BackendFaults
         /\ FaultFires(env))
        => (/\ vpc' = "returned"
            /\ final_result'.error_message = Some(<<"Invalid SQL: ", env.fault>>)
            /\ final_result'.query_result = None
            /\ tool_state' = tool_state) ]_vars

C7_Witness ==
    /\ Returned
    /\ env.fault = "get_bq_client"
    /\ ~HasForbiddenWord(sql_string)
    /\ final_result.error_message = Some(<<"Invalid SQL: ", "get_bq_client">>)
    /\ final_result.query_result = None
    /\ tool_state # None

(***************************************************************************)
(* Properties of _serialize_value_for_sql                                  *)
(***************************************************************************)
\* C8: the serializer never fails, and an array is rendered as a bracketed
\* list: it is neither rejected nor rendered as NULL.
C8_SerializeTotal ==
    ser_pc = "done" =>
        /\ ser_result.ok
        /\ ser_value.k = "array" =>
              /\ Head(ser_result.text) = "["
              /\ ser_result.text[Len(ser_result.text)] = "]"

(***************************************************************************)
(* Properties of get_bigquery_schema                                       *)
(***************************************************************************)
SchemaDone == schema_pc = "done"

\* the kinds of table for which a block is emitted
EmitsBlock(tbl) ==
    \/ tbl.table_type \in {"VIEW", "TABLE"}
    \/ tbl.table_type = "EXTERNAL" /\ tbl.source_format = "ICEBERG"

StmtsOf(doc, t, kind) ==
    { i \in 1..Len(doc) : doc[i].table = t /\ doc[i].stmt = kind }

\* C4: once the table list has been obtained the operation returns a
\* document, whatever fails for a single table, and every listed table of an
\* emitting kind has its block in the document.
C4_OnlyListingIsFatal ==
    SchemaDone /\ ~catalog.listing_fails =>
        /\ schema_result.ok
        /\ \A t \in 1..Len(catalog.tables) :
              EmitsBlock(catalog.tables[t]) =>
                  \E i \in 1..Len(schema_result.doc) :
                      schema_result.doc[i].table = t

\* the sample step of table t fails: the sample query, its conversion to
\* rows, or the serialization of a value of one of its rows
SampleStepFails(tbl, empty_raises) ==
    \/ tbl.sample.fault # "none"
    \/ \E r \in 1..Len(tbl.sample.rows) :
          ~SerializeRow(tbl.sample.rows[r], empty_raises).ok

\* C9: in a returned document the block of a TABLE-kind table never holds both
\* a failure note and an INSERT statement, and holds the note (and no INSERT)
\* whenever its sample step failed.
C9_NoteExcludesInserts ==
    SchemaDone /\ schema_result.ok =>
        \A t \in 1..Len(catalog.tables) :
            catalog.tables[t].table_type = "TABLE" =>
                LET notes == StmtsOf(schema_result.doc, t, "NOTE")
                    inserts == StmtsOf(schema_result.doc, t, "INSERT")
                IN /\ ~(notes # {} /\ inserts # {})
                   /\ SampleStepFails(catalog.tables[t], numpy_empty_raises)
                        => (Cardinality(notes) = 1 /\ inserts = {})

(***************************************************************************)
(* Properties of the settings memo                                         *)
(***************************************************************************)
\* the snapshot a successful computation over the current dataset stores
FreshDoc == get_bigquery_schema(catalog, numpy_empty_raises).doc

IsGet == last_call'.op = "get_database_settings"
IsUpdate == last_call'.op = "update_database_settings"

\* C5: a sequential get_database_settings computes only when nothing is
\* stored and otherwise returns the stored snapshot unchanged;
\* update_database_settings always recomputes and replaces it; a successful
\* get returns the snapshot of the latest computation; nothing else replaces
\* or clears the stored snapshot.
C5_MemoUntilRefresh ==
    [][ /\ (IsGet /\ database_settings # None) =>
              /\ compute_count' = compute_count
              /\ database_settings' = database_settings
              /\ last_call'.ok
              /\ last_call'.ret = database_settings
        /\ (IsGet /\ database_settings = None /\ last_call'.ok) =>
              /\ compute_count' = compute_count + 1
              /\ database_settings' # None
              /\ database_settings'[1].bq_ddl_schema = FreshDoc
              /\ last_call'.ret = database_settings'
        /\ (IsUpdate /\ last_call'.ok) =>
              /\ compute_count' = compute_count + 1
              /\ database_settings' # None
              /\ database_settings'[1].bq_ddl_schema = FreshDoc
              /\ database_settings'[1].id = compute_count'
              /\ last_call'.ret = database_settings'
        /\ (IsGet /\ last_call'.ok) => last_call'.ret = last_computed'
        /\ (~IsGet /\ ~IsUpdate) => database_settings' = database_settings
      ]_vars

\* a get that returned the stored snapshot of an earlier refresh although the
\* dataset has changed since
C5_Witness ==
    /\ last_call.op = "get_database_settings"
    /\ last_call.ok
    /\ compute_count = 2
    /\ last_call.ret = database_settings
    /\ database_settings # None
    /\ database_settings[1].id = 2
    /\ database_settings[1].bq_ddl_schema # FreshDoc
    /\ vpc = "returned"

\* the snapshots a run of update_database_settings can build
BuiltSnapshots ==
    { MakeSettings(get_bigquery_schema(c, numpy_empty_raises).doc, t) :
        c \in { x \in SettingsCatalogs :
                  get_bigquery_schema(x, numpy_empty_raises).ok },
        t \in Callers }

\* C10: with concurrent callers every caller that returns from
\* get_database_settings returns a fully built snapshot, never None (while
\* the introspection may run once per caller and the stored snapshot of one
\* caller be overwritten by another's).
C10_RaceReturnsSnapshot ==
    \A t \in Callers :
        tpc[t] = "done" =>
            /\ tret[t] # None
            /\ tret[t][1] \in BuiltSnapshots

\* both callers computed, caller 2 overwrote the snapshot caller 1 had stored,
\* and caller 1 returned caller 2's snapshot
C10_Witness ==
    /\ \A t \in Callers : tpc[t] = "done"
    /\ compute_count >= 2
    /\ tlocal[1] # None /\ tlocal[1][1].id = 1
    /\ database_settings # None /\ database_settings[1].id = 2
    /\ tret[1] = database_settings

====
